---- MODULE Spec2Model ----
(***************************************************************************)
(* A model of packages/marshaller/lib/SchemaType.ts: the tag registries,   *)
(* the base / key-configuration shape checks and the recursive validator   *)
(* isSchemaType.                                                           *)
(*                                                                         *)
(* JavaScript values are records tagged by `k`.  An object keeps its own   *)
(* properties as a sequence of <<name, value>> pairs, in insertion order,  *)
(* because Object.keys and therefore the validator's walk follow it.  The  *)
(* one function value, Fn, stands for `function () {}`.                    *)
(* An evaluation ends in one of three outcomes: "true", "false" or         *)
(* "TypeError" (an exception propagating out of the call).                 *)
(***************************************************************************)
EXTENDS Integers, Sequences, FiniteSets, TLC

VARIABLES arg, result, depth, heap, root, stack, ret, visits

vars == <<arg, result, depth, heap, root, stack, ret, visits>>

(***************************************************************************)
(* JavaScript values                                                       *)
(***************************************************************************)
Undefined == [k |-> "undefined"]

Null == [k |-> "null"]

Bool(b) == [k |-> "boolean", b |-> b]

Num(n) == [k |-> "number", n |-> n]

Str(s) == [k |-> "string", s |-> s]

Fn == [k |-> "function"]

Arr(elems) == [k |-> "array", elems |-> elems]

Obj(entries) == [k |-> "object", entries |-> entries]

\* A reference to the object stored in heap cell i (used by the walk, where
\* a schema may be a graph).
Ref(i) == [k |-> "ref", id |-> i]

Deref(v) == IF v.k = "ref" THEN heap[v.id] ELSE v

\* typeof v
TypeOf(v) ==
    CASE v.k = "undefined" -> "undefined"
      [] v.k = "null"      -> "object"
      [] v.k = "boolean"   -> "boolean"
      [] v.k = "number"    -> "number"
      [] v.k = "string"    -> "string"
      [] v.k = "function"  -> "function"
      [] v.k = "array"     -> "object"
      [] v.k = "object"    -> "object"

\* Boolean(v), and the truthiness `!v` negates
ToBoolean(v) ==
    CASE v.k = "undefined" -> FALSE
      [] v.k = "null"      -> FALSE
      [] v.k = "boolean"   -> v.b
      [] v.k = "number"    -> v.n # 0
      [] v.k = "string"    -> v.s # ""
      [] OTHER             -> TRUE

\* Array.isArray(v)
IsArray(v) == v.k = "array"

HasOwn(o, p) == o.k = "object" /\ \E i \in DOMAIN o.entries : o.entries[i][1] = p

\* o.p for the property names the validator reads; none of them is defined
\* on a built-in prototype, so a value without the own property yields
\* undefined.
Get(o, p) ==
    IF HasOwn(o, p)
    THEN o.entries[CHOOSE i \in DOMAIN o.entries : o.entries[i][1] = p][2]
    ELSE Undefined

\* Object.keys(o) paired with o[key], in enumeration order
OwnValues(o) ==
    IF o.k = "array" THEN o.elems
    ELSE IF o.k = "object" THEN [i \in DOMAIN o.entries |-> o.entries[i][2]]
    ELSE <<>>

\* The outcomes of an evaluation
Outcome(b) == IF b THEN "true" ELSE "false"

\* a && b on outcomes: b is evaluated only when a is true
AndThen(a, b) == IF a = "true" THEN b ELSE a

(***************************************************************************)
(* ToPropertyKey, applied by `x in registry` to its left operand           *)
(***************************************************************************)
Key(s) == [ok |-> TRUE, key |-> s]

Throws == [ok |-> FALSE, key |-> ""]

RECURSIVE ToPropertyKey(_)
RECURSIVE JoinKeys(_, _)

\* Array.prototype.join(","): null and undefined elements print as ""
JoinKeys(elems, i) ==
    IF i > Len(elems) THEN Key("")
    ELSE LET e    == elems[i]
             head == IF e.k \in {"undefined", "null"} THEN Key("")
                     ELSE ToPropertyKey(e)
             tail == JoinKeys(elems, i + 1)
         IN  IF ~head.ok \/ ~tail.ok THEN Throws
             ELSE IF i = Len(elems) THEN head
             ELSE Key(head.key \o "," \o tail.key)

\* OrdinaryToPrimitive(o, string) of a plain object: toString, then valueOf.
\* An own property shadows Object.prototype's method; Fn returns undefined;
\* Object.prototype.valueOf returns the object itself, which is no primitive.
ObjectToKey(o) ==
    IF ~HasOwn(o, "toString") THEN Key("[object Object]")
    ELSE IF Get(o, "toString").k = "function" THEN Key("undefined")
    ELSE IF HasOwn(o, "valueOf") /\ Get(o, "valueOf").k = "function"
         THEN Key("undefined")
    ELSE Throws

ToPropertyKey(v) ==
    CASE v.k = "undefined" -> Key("undefined")
      [] v.k = "null"      -> Key("null")
      [] v.k = "boolean"   -> Key(IF v.b THEN "true" ELSE "false")
      [] v.k = "number"    -> Key(ToString(v.n))
      [] v.k = "string"    -> Key(v.s)
      [] v.k = "function"  -> Key("function () {}")
      [] v.k = "array"     -> JoinKeys(v.elems, 1)
      [] v.k = "object"    -> ObjectToKey(v)

(***************************************************************************)
(* The registries                                                          *)
(***************************************************************************)
TypeTags ==
    {"Binary", "BinarySet", "Boolean", "Collection", "Custom", "Date",
     "Document", "Hash", "List", "Map", "Null", "Number", "NumberSet",
     "String", "StringSet", "Tuple"}

KeyTypes == {"HASH", "RANGE"}

\* What both registries, being object literals, inherit from Object.prototype
ObjectPrototypeKeys ==
    {"constructor", "toString", "toLocaleString", "valueOf", "hasOwnProperty",
     "isPrototypeOf", "propertyIsEnumerable", "__proto__", "__defineGetter__",
     "__defineSetter__", "__lookupGetter__", "__lookupSetter__"}

\* `key in registry`: HasProperty looks along the prototype chain
HasProperty(registry, key) == key \in registry \/ key \in ObjectPrototypeKeys

\* `v in registry` as an outcome
In(v, registry) ==
    LET pk == ToPropertyKey(v)
    IN  IF pk.ok THEN Outcome(HasProperty(registry, pk.key)) ELSE "TypeError"

(***************************************************************************)
(* The shape checks                                                        *)
(***************************************************************************)
isBaseType(a) ==
    /\ ToBoolean(a)
    /\ TypeOf(a) = "object"
    /\ TypeOf(Get(a, "type")) = "string"
    /\ HasProperty(TypeTags, Get(a, "type").s)
    /\ TypeOf(Get(a, "attributeName")) \in {"string", "undefined"}

isKeyConfiguration(a) ==
    AndThen(Outcome(ToBoolean(a)), In(Get(a, "type"), KeyTypes))

isIndexKeyConfiguration(a) ==
    AndThen(isKeyConfiguration(a),
            Outcome(TypeOf(Get(a, "indexName")) = "string"))

\* indexKeyConfigurations.map(isIndexKeyConfiguration).filter(b => !b).length === 0
\* map calls the predicate on every element before filter looks at any result
AllIndexKeyConfigurations(elems) ==
    IF \E i \in DOMAIN elems : isIndexKeyConfiguration(elems[i]) = "TypeError"
    THEN "TypeError"
    ELSE Outcome(\A i \in DOMAIN elems : isIndexKeyConfiguration(elems[i]) = "true")

isKeyableType(a) ==
    LET keyConfiguration       == Get(a, "keyConfiguration")
        indexKeyConfigurations == Get(a, "indexKeyConfigurations")
    IN  AndThen(
            IF keyConfiguration = Undefined THEN "true"
            ELSE isKeyConfiguration(keyConfiguration),
            IF indexKeyConfigurations = Undefined THEN "true"
            ELSE IF ~IsArray(indexKeyConfigurations) THEN "false"
            ELSE AllIndexKeyConfigurations(indexKeyConfigurations.elems))

(***************************************************************************)
(* isSchemaType                                                            *)
(***************************************************************************)
RECURSIVE isSchemaType(_)
RECURSIVE AllSchemaTypes(_, _)

\* The loops of the Document and Tuple cases: the first member that is not
\* accepted ends the loop (with false, or with the exception it raised)
AllSchemaTypes(values, i) ==
    IF i > Len(values) THEN "true"
    ELSE AndThen(isSchemaType(values[i]), AllSchemaTypes(values, i + 1))

KeyableCase(a) == isKeyableType(a)

\* A validator that forgets to look at unmarshall
CustomCase_MarshallOnly(a) == Outcome(TypeOf(Get(a, "marshall")) = "function")

CustomCase(a) ==
    Outcome(/\ TypeOf(Get(a, "marshall")) = "function"
            /\ TypeOf(Get(a, "unmarshall")) = "function")

DocumentCase(a) ==
    LET valueConstructor == Get(a, "valueConstructor")
        members          == Get(a, "members")
    IN  IF ~ToBoolean(members) \/ TypeOf(members) # "object" THEN "false"
        ELSE AndThen(AllSchemaTypes(OwnValues(members), 1),
                     Outcome(TypeOf(valueConstructor) \in {"function", "undefined"}))

\* A validator that enforces MemberType: no attributeName on a member type
ListCase_NoAttributeName(a) ==
    AndThen(Outcome(Get(Get(a, "memberType"), "attributeName") = Undefined),
            isSchemaType(Get(a, "memberType")))

ListCase(a) == isSchemaType(Get(a, "memberType"))

NumberCase(a) ==
    AndThen(isKeyableType(a),
            Outcome(TypeOf(Get(a, "versionAttribute")) \in {"boolean", "undefined"}))

\* A validator whose loop returns after its first member
TupleCase_FirstMemberOnly(a) ==
    LET members == Get(a, "members")
    IN  IF ~IsArray(members) THEN "false"
        ELSE IF members.elems = <<>> THEN "true"
        ELSE isSchemaType(members.elems[1])

TupleCase(a) ==
    LET members == Get(a, "members")
    IN  IF ~IsArray(members) THEN "false"
        ELSE AllSchemaTypes(members.elems, 1)

isSchemaType(a) ==
    IF isBaseType(a)
    THEN LET type == Get(a, "type").s
         IN  CASE type \in {"Binary", "String"} -> KeyableCase(a)
               [] type = "Custom"               -> CustomCase(a)
               [] type = "Document"             -> DocumentCase(a)
               [] type \in {"List", "Map"}      -> ListCase(a)
               [] type = "Number"               -> NumberCase(a)
               [] type = "Tuple"                -> TupleCase(a)
               [] OTHER                         -> "true"
    ELSE "false"

(***************************************************************************)
(* Bounds of the input universe                                            *)
(***************************************************************************)
\* longest indexKeyConfigurations array
MaxIndexKeys == 3

\* most members of a Tuple or Document written in one piece
MaxMembers == 3

\* most containers wrapped around a seed
MaxDepth == 2

(***************************************************************************)
(* The input universe: values a caller can hand to isSchemaType            *)
(***************************************************************************)
\* <<name, value>> unless the property is left out
Opt(name, v) == IF v = Undefined THEN <<>> ELSE << <<name, v>> >>

SeqsUpTo(S, n) == UNION {[1..m -> S] : m \in 0..n}

\* {toString: null}: an object with no conversion to a primitive
Unprintable == Obj(<< <<"toString", Null>> >>)

KeyTypeValues ==
    {Undefined, Str("HASH"), Str("RANGE"), Str("BOGUS"), Str("hash"),
     Str("constructor"), Num(1), Arr(<<Str("HASH")>>), Obj(<<>>), Unprintable}

HashKey == Obj(<< <<"type", Str("HASH")>> >>)

BogusKey == Obj(<< <<"type", Str("BOGUS")>> >>)

UnprintableKey == Obj(<< <<"type", Unprintable>> >>)

KeyConfigurationValues ==
    {Null, Num(0), Str("HASH"), Bool(TRUE)}
        \cup {Obj(Opt("type", t)) : t \in KeyTypeValues}

GoodIndexKey == Obj(<< <<"type", Str("RANGE")>>, <<"indexName", Str("gsi1")>> >>)

NamelessIndexKey == Obj(<< <<"type", Str("RANGE")>> >>)

UnprintableIndexKey == Obj(<< <<"type", Unprintable>>, <<"indexName", Str("gsi1")>> >>)

IndexKeyConfigurationsValues ==
    {Undefined, Null, Obj(<<>>), Str("gsi1"),
     Arr(<<Null>>), Arr(<<Str("HASH")>>),
     Arr(<< Obj(<< <<"type", Str("BOGUS")>>, <<"indexName", Str("gsi1")>> >>) >>),
     Arr(<< Obj(<< <<"type", Str("valueOf")>>, <<"indexName", Str("gsi1")>> >>) >>),
     Arr(<< Obj(<< <<"type", Str("HASH")>>, <<"indexName", Num(1)>> >>) >>)}
        \cup {Arr(s) : s \in SeqsUpTo({GoodIndexKey, NamelessIndexKey,
                                        UnprintableIndexKey}, MaxIndexKeys)}

KeyableNode(type, kc, ikc, va) ==
    Obj(<< <<"type", Str(type)>> >> \o Opt("keyConfiguration", kc)
        \o Opt("indexKeyConfigurations", ikc) \o Opt("versionAttribute", va))

KeyableNodes ==
    {KeyableNode(t, kc, ikc, Undefined) :
        t \in {"Binary", "String", "Number"},
        kc \in KeyConfigurationValues \cup {Undefined},
        ikc \in {Undefined, Arr(<<GoodIndexKey>>), Arr(<<NamelessIndexKey>>)}}
    \cup
    {KeyableNode(t, kc, ikc, Undefined) :
        t \in {"Binary", "String", "Number"},
        kc \in {Undefined, HashKey},
        ikc \in IndexKeyConfigurationsValues}
    \cup
    {KeyableNode(t, kc, ikc, va) :
        t \in {"Binary", "String", "Number"},
        kc \in {Undefined, HashKey, BogusKey},
        ikc \in {Undefined, Arr(<<GoodIndexKey>>), Arr(<<NamelessIndexKey>>)},
        va \in {Bool(FALSE), Str("yes"), Null}}

CustomNodes ==
    {Obj(<< <<"type", Str("Custom")>> >> \o Opt("marshall", m) \o Opt("unmarshall", u)
         \o Opt("keyConfiguration", kc) \o Opt("indexKeyConfigurations", ikc)) :
        m \in {Undefined, Null, Str("marshall"), Fn},
        u \in {Undefined, Null, Str("unmarshall"), Fn},
        kc \in {Undefined, HashKey, BogusKey, UnprintableKey},
        ikc \in {Undefined, Arr(<<NamelessIndexKey>>)}}

TypeNames ==
    {"Boolean", "Date", "Null", "Hash", "Collection", "BinarySet", "NumberSet",
     "StringSet", "String", "binary", "BINARY", "Bogus", "NotAKind", "",
     "constructor", "toString", "__proto__"}

PlainNodes ==
    {Obj(<< <<"type", Str(t)>> >> \o Opt("attributeName", n)) :
        t \in TypeNames, n \in {Undefined, Str("attr"), Num(5), Null}}

NonNodes ==
    {Undefined, Null, Bool(TRUE), Num(0), Num(7), Str(""), Str("String"), Fn,
     Arr(<<>>), Arr(<<Str("String")>>), Obj(<<>>),
     Obj(<< <<"type", Num(1)>> >>), Obj(<< <<"type", Null>> >>),
     Obj(<< <<"type", Unprintable>> >>),
     Obj(<< <<"type", Arr(<<Str("String")>>)>> >>)}

\* Members of the containers written in one piece: an accepted node, a
\* rejected one, and one whose validation raises
ValidMember == Obj(<< <<"type", Str("Boolean")>> >>)

InvalidMember == Obj(<< <<"type", Str("NotAKind")>> >>)

RaisingMember == KeyableNode("String", UnprintableKey, Undefined, Undefined)

MemberValues == {ValidMember, InvalidMember, RaisingMember}

MemberNames == <<"a", "b", "c", "d", "e">>

\* {a: s[1], b: s[2], ...}
Schema(s) == Obj([i \in DOMAIN s |-> <<MemberNames[i], s[i]>>])

TupleNodes ==
    {Obj(<< <<"type", Str("Tuple")>> >> \o Opt("members", m)) :
        m \in {Undefined, Null, Str("members"), Obj(<<>>),
               Schema(<<ValidMember>>), Arr(<<Undefined>>), Arr(<<Str("Boolean")>>)}
              \cup {Arr(s) : s \in SeqsUpTo(MemberValues, MaxMembers)}}

DocumentNodes ==
    {Obj(<< <<"type", Str("Document")>> >> \o Opt("members", m)
         \o Opt("valueConstructor", vc)) :
        m \in {Undefined, Null, Str("members"), Num(3), Fn,
               Schema(<<Undefined>>), Schema(<<Str("Boolean")>>),
               Arr(<<ValidMember>>), Arr(<<InvalidMember>>)}
              \cup {Schema(s) : s \in SeqsUpTo(MemberValues, MaxMembers)},
        vc \in {Undefined, Fn, Str("ctor"), Null}}

ListNodes ==
    {Obj(<< <<"type", Str(t)>> >> \o Opt("memberType", mt)) :
        t \in {"List", "Map"},
        mt \in {Undefined, Null, Str("String"), Arr(<<ValidMember>>)} \cup MemberValues}

\* The values that may be wrapped into further containers
Seeds ==
    {Undefined, Str("String"), ValidMember, InvalidMember, RaisingMember,
     Obj(<< <<"type", Str("String")>>, <<"attributeName", Str("attr")>> >>),
     Obj(<< <<"type", Str("Boolean")>>, <<"attributeName", Num(5)>> >>),
     Obj(<< <<"type", Str("constructor")>> >>),
     KeyableNode("Number", HashKey, Arr(<<GoodIndexKey>>), Bool(TRUE)),
     KeyableNode("Binary", BogusKey, Undefined, Undefined),
     Obj(<< <<"type", Str("Custom")>>, <<"marshall", Fn>>, <<"unmarshall", Fn>> >>),
     Obj(<< <<"type", Str("Custom")>>, <<"marshall", Fn>>, <<"unmarshall", Fn>>,
            <<"keyConfiguration", BogusKey>> >>),
     Obj(<< <<"type", Str("Custom")>>, <<"marshall", Fn>> >>)}

Inputs ==
    NonNodes \cup PlainNodes \cup KeyableNodes \cup CustomNodes \cup TupleNodes
        \cup DocumentNodes \cup ListNodes \cup Seeds

(***************************************************************************)
(* The validator as a function: a caller builds a value and validates it   *)
(***************************************************************************)
Init ==
    /\ arg \in Inputs
    /\ result = "none"
    /\ depth = 0
    /\ heap = <<>>
    /\ root = Undefined
    /\ stack = <<>>
    /\ ret = "none"
    /\ visits = <<>>

Wrappable == result = "none" /\ depth < MaxDepth /\ (depth > 0 \/ arg \in Seeds)

\* {type: 'List' | 'Map', memberType: arg}
WrapList ==
    /\ Wrappable
    /\ \E t \in {"List", "Map"}, n \in {Undefined, Num(5)} :
          arg' = Obj(<< <<"type", Str(t)>> >> \o Opt("attributeName", n)
                     \o << <<"memberType", arg>> >>)
    /\ depth' = depth + 1
    /\ UNCHANGED <<result, heap, root, stack, ret, visits>>

\* {type: 'Tuple', members: [..., arg, ...]}
WrapTuple ==
    /\ Wrappable
    /\ \E before \in {<<>>, <<ValidMember>>}, after \in {<<>>, <<InvalidMember>>} :
          arg' = Obj(<< <<"type", Str("Tuple")>>,
                        <<"members", Arr(before \o <<arg>> \o after)>> >>)
    /\ depth' = depth + 1
    /\ UNCHANGED <<result, heap, root, stack, ret, visits>>

\* {type: 'Document', members: {..., k: arg}, valueConstructor?}
WrapDocument ==
    /\ Wrappable
    /\ \E before \in {<<>>, <<ValidMember>>}, vc \in {Undefined, Str("ctor")} :
          arg' = Obj(<< <<"type", Str("Document")>>,
                        <<"members", Schema(before \o <<arg>>)>> >>
                     \o Opt("valueConstructor", vc))
    /\ depth' = depth + 1
    /\ UNCHANGED <<result, heap, root, stack, ret, visits>>

\* result = isSchemaType(arg)
Validate ==
    /\ result = "none"
    /\ result' = isSchemaType(arg)
    /\ UNCHANGED <<arg, depth, heap, root, stack, ret, visits>>

Next == WrapList \/ WrapTuple \/ WrapDocument \/ Validate

Spec == Init /\ [][Next]_vars

(***************************************************************************)
(* The validator as a walk: isSchemaType's recursion as a call stack over  *)
(* a heap, in which a schema may refer back to one of its own containers   *)
(***************************************************************************)
\* arg.type of a value that passed the base check
TypeName(a) == Get(a, "type").s

\* The values held by a node's members (Document, Tuple) or memberType
\* (List, Map), in the order the validator descends into them
Children(a) ==
    IF TypeOf(Get(a, "type")) # "string" THEN <<>>
    ELSE CASE TypeName(a) = "Document" -> OwnValues(Get(a, "members"))
           [] TypeName(a) \in {"List", "Map"} -> <<Get(a, "memberType")>>
           [] TypeName(a) = "Tuple" ->
                IF IsArray(Get(a, "members")) THEN Get(a, "members").elems ELSE <<>>
           [] OTHER -> <<>>

\* most heap cells (containers) of a schema
HeapSize == 3

\* deepest call stack the model follows
MaxStack == 6

\* The container shapes of a heap cell, around its child `main`
CellShapes(main) ==
    <<Obj(<< <<"type", Str("List")>>, <<"memberType", main>> >>),
      Obj(<< <<"type", Str("Map")>>, <<"attributeName", Num(5)>>,
             <<"memberType", main>> >>),
      Obj(<< <<"type", Str("Tuple")>>, <<"members", Arr(<<main>>)>> >>),
      Obj(<< <<"type", Str("Tuple")>>, <<"members", Arr(<<ValidMember, main>>)>> >>),
      Obj(<< <<"type", Str("Tuple")>>, <<"members", Arr(<<InvalidMember, main>>)>> >>),
      Obj(<< <<"type", Str("Document")>>, <<"members", Schema(<<main>>)>> >>),
      Obj(<< <<"type", Str("Document")>>,
             <<"members", Schema(<<main, InvalidMember>>)>> >>),
      Obj(<< <<"type", Str("Document")>>,
             <<"members", Schema(<<RaisingMember, main>>)>> >>),
      Obj(<< <<"type", Str("Document")>>, <<"members", Schema(<<main>>)>>,
             <<"valueConstructor", Str("ctor")>> >>)>>

\* A chain of n containers, cell i holding cell i + 1 and the last one holding
\* `last`: a leaf, or a reference back into the chain
Heaps(n) ==
    {[i \in 1..n |-> CellShapes(IF i < n THEN Ref(i + 1) ELSE last)[shape[i]]] :
        shape \in [1..n -> DOMAIN CellShapes(Undefined)],
        last \in MemberValues \cup {Ref(j) : j \in 1..n}}

Frame(v, i) == [v |-> v, i |-> i]

Top == stack[Len(stack)]

Pop == SubSeq(stack, 1, Len(stack) - 1)

\* What a call of isSchemaType on the object a does before it validates any
\* member: an outcome, or "loop" when it goes on to the members
LocalOutcome(a) ==
    IF ~isBaseType(a) THEN "false"
    ELSE CASE TypeName(a) \in {"Binary", "String"} -> KeyableCase(a)
           [] TypeName(a) = "Custom" -> CustomCase(a)
           [] TypeName(a) = "Document" ->
                IF ~ToBoolean(Get(a, "members"))
                      \/ TypeOf(Get(a, "members")) # "object"
                THEN "false" ELSE "loop"
           [] TypeName(a) \in {"List", "Map"} -> "loop"
           [] TypeName(a) = "Number" -> NumberCase(a)
           [] TypeName(a) = "Tuple" ->
                IF ~IsArray(Get(a, "members")) THEN "false" ELSE "loop"
           [] OTHER -> "true"

\* A validator that remembers the nodes it has seen and takes a node it
\* meets again for granted
CallOutcome_VisitedSet(v) ==
    IF v.k = "ref" /\ visits[v.id] >= 1 THEN "true" ELSE LocalOutcome(Deref(v))

\* The call isSchemaType(v): nothing is remembered between calls
CallOutcome(v) == LocalOutcome(Deref(v))

WalkInit ==
    /\ \E n \in 1..HeapSize : heap \in Heaps(n)
    /\ root = Ref(1)
    /\ stack = <<Frame(root, 0)>>
    /\ ret = "none"
    /\ visits = [i \in DOMAIN heap |-> 0]
    /\ arg = Undefined
    /\ result = "none"
    /\ depth = 0

\* isSchemaType(v) is entered
Enter ==
    /\ stack # <<>> /\ ret = "none" /\ Top.i = 0
    /\ LET o == CallOutcome(Top.v)
       IN  IF o = "loop"
           THEN stack' = Pop \o <<Frame(Top.v, 1)>> /\ ret' = "none"
           ELSE stack' = Pop /\ ret' = o
    /\ visits' = IF Top.v.k = "ref"
                 THEN [visits EXCEPT ![Top.v.id] = @ + 1] ELSE visits
    /\ UNCHANGED <<arg, result, depth, heap, root>>

\* the recursive call on the next member
Descend ==
    /\ stack # <<>> /\ ret = "none" /\ Top.i >= 1
    /\ Top.i <= Len(Children(Deref(Top.v)))
    /\ Len(stack) < MaxStack
    /\ stack' = stack \o <<Frame(Children(Deref(Top.v))[Top.i], 0)>>
    /\ UNCHANGED <<arg, result, depth, heap, root, ret, visits>>

\* a recursive call has returned to the frame that made it
Return ==
    /\ stack # <<>> /\ ret # "none"
    /\ IF ret = "true" /\ TypeName(Deref(Top.v)) \in {"Document", "Tuple"}
       THEN stack' = Pop \o <<Frame(Top.v, Top.i + 1)>> /\ ret' = "none"
       ELSE stack' = Pop /\ ret' = ret
    /\ UNCHANGED <<arg, result, depth, heap, root, visits>>

\* the loop over the members is over
Finish ==
    /\ stack # <<>> /\ ret = "none" /\ Top.i >= 1
    /\ Top.i > Len(Children(Deref(Top.v)))
    /\ stack' = Pop
    /\ ret' = IF TypeName(Deref(Top.v)) = "Document"
              THEN Outcome(TypeOf(Get(Deref(Top.v), "valueConstructor"))
                               \in {"function", "undefined"})
              ELSE "true"
    /\ UNCHANGED <<arg, result, depth, heap, root, visits>>

WalkNext == Enter \/ Descend \/ Return \/ Finish

WalkSpec == WalkInit /\ [][WalkNext]_vars

Done == stack = <<>> /\ ret # "none"

(***************************************************************************)
(* Vocabulary of the properties                                            *)
(***************************************************************************)
Validated == result # "none"

Accepted(v) == isSchemaType(v) = "true"

\* A key type that is one of the two registered ones
RegisteredKeyType(v) == v \in {Str("HASH"), Str("RANGE")}

RegisteredKey(kc) == kc # Null /\ RegisteredKeyType(Get(kc, "type"))

RegisteredIndexKey(e) == RegisteredKey(e) /\ TypeOf(Get(e, "indexName")) = "string"

RegisteredKeys(a) ==
    /\ Get(a, "keyConfiguration") = Undefined
          \/ RegisteredKey(Get(a, "keyConfiguration"))
    /\ Get(a, "indexKeyConfigurations") = Undefined
          \/ /\ IsArray(Get(a, "indexKeyConfigurations"))
             /\ \A i \in DOMAIN Get(a, "indexKeyConfigurations").elems :
                   RegisteredIndexKey(Get(a, "indexKeyConfigurations").elems[i])

RECURSIVE SubNodes(_)
\* a and every value nested in it through members and memberType
SubNodes(a) ==
    {a} \cup UNION {SubNodes(Children(a)[i]) : i \in DOMAIN Children(a)}

(***************************************************************************)
(* C1: for every string k that is not a declared tag name,                 *)
(* isSchemaType({type: k}) is false.                                       *)
(***************************************************************************)
C1_UndeclaredTagRejected ==
    (Validated /\ \E k \in TypeNames \ TypeTags : arg = Obj(<< <<"type", Str(k)>> >>))
        => result = "false"

(***************************************************************************)
(* C2: a Document that passes the base check is accepted iff members is a  *)
(* non-null object, every value stored in it is accepted and               *)
(* valueConstructor is absent or a function; an otherwise accepted         *)
(* Document with one member that is not accepted returns false.            *)
(***************************************************************************)
DocumentShape(a) ==
    /\ Get(a, "members") # Null
    /\ TypeOf(Get(a, "members")) = "object"
    /\ \A i \in DOMAIN OwnValues(Get(a, "members")) :
          Accepted(OwnValues(Get(a, "members"))[i])
    /\ TypeOf(Get(a, "valueConstructor")) \in {"undefined", "function"}

OneMemberReplaced(a) ==
    /\ Get(a, "members") # Null
    /\ TypeOf(Get(a, "members")) = "object"
    /\ TypeOf(Get(a, "valueConstructor")) \in {"undefined", "function"}
    /\ Cardinality({i \in DOMAIN OwnValues(Get(a, "members")) :
                        ~Accepted(OwnValues(Get(a, "members"))[i])}) = 1

\* The equivalence of C2 alone
C2_DocumentIff ==
    (Validated /\ isBaseType(arg) /\ TypeName(arg) = "Document")
        => (result = "true" <=> DocumentShape(arg))

\* C2: the equivalence, and an otherwise accepted Document in which one
\* member is not accepted returns false
C2_NoPartialValidity ==
    /\ C2_DocumentIff
    /\ (Validated /\ isBaseType(arg) /\ TypeName(arg) = "Document"
            /\ OneMemberReplaced(arg))
          => result = "false"

(***************************************************************************)
(* C3: a Binary, String or Number node that passes the base check is       *)
(* accepted iff its keyConfiguration is absent or has a registered key     *)
(* type, its indexKeyConfigurations is absent or an array of entries with  *)
(* a registered key type and a string indexName, and (Number only) its     *)
(* versionAttribute is absent or a boolean.                                *)
(***************************************************************************)
C3_KeyableIff ==
    (Validated /\ isBaseType(arg) /\ TypeName(arg) \in {"Binary", "String", "Number"})
        => (result = "true" <=>
                /\ RegisteredKeys(arg)
                /\ TypeName(arg) = "Number"
                      => TypeOf(Get(arg, "versionAttribute")) \in {"undefined", "boolean"})

(***************************************************************************)
(* C4: a Custom node that passes the base check is accepted iff marshall   *)
(* and unmarshall are both functions, and is otherwise rejected with       *)
(* false.                                                                  *)
(***************************************************************************)
C4_CustomIff ==
    (Validated /\ isBaseType(arg) /\ TypeName(arg) = "Custom")
        => result = Outcome(/\ Get(arg, "marshall").k = "function"
                            /\ Get(arg, "unmarshall").k = "function")

C4_Witness ==
    /\ Validated /\ isBaseType(arg) /\ TypeName(arg) = "Custom"
    /\ Get(arg, "marshall") = Fn
    /\ Get(arg, "unmarshall") = Str("unmarshall")
    /\ result = "false"

(***************************************************************************)
(* C5: a Tuple that passes the base check is accepted iff members is an    *)
(* array whose every element is accepted; an empty array is accepted and   *)
(* a members that is no array is rejected with false.                      *)
(***************************************************************************)
C5_TupleIff ==
    (Validated /\ isBaseType(arg) /\ TypeName(arg) = "Tuple")
        => /\ result = "true" <=>
                  /\ IsArray(Get(arg, "members"))
                  /\ \A i \in DOMAIN Get(arg, "members").elems :
                        Accepted(Get(arg, "members").elems[i])
           /\ Get(arg, "members") = Arr(<<>>) => result = "true"
           /\ ~IsArray(Get(arg, "members")) => result = "false"

C5_Witness ==
    /\ Validated /\ isBaseType(arg)
    /\ Get(arg, "members") = Arr(<<ValidMember, InvalidMember, ValidMember>>)
    /\ TypeName(arg) = "Tuple"
    /\ result = "false"

(***************************************************************************)
(* C6: validation of any finite acyclic value ends with the boolean true   *)
(* or false, never with an exception, and a value that fails the base      *)
(* check is rejected with false.                                           *)
(***************************************************************************)
C6_NeverRaises ==
    /\ Validated => result \in {"true", "false"}
    /\ (Validated /\ ~isBaseType(arg)) => result = "false"

(***************************************************************************)
(* C7: in an accepted tree every Binary, Custom, Number and String node,   *)
(* at any depth, has a keyConfiguration and an indexKeyConfigurations that *)
(* isKeyableType accepts.                                                  *)
(***************************************************************************)
C7_AcceptedNodesKeyable ==
    (Validated /\ result = "true")
        => \A n \in SubNodes(arg) :
              (isBaseType(n) /\ TypeName(n) \in {"Binary", "Custom", "Number", "String"})
                  => isKeyableType(n) = "true"

(***************************************************************************)
(* C8: a List or Map that passes the base check is accepted iff its        *)
(* memberType is accepted; a missing memberType is rejected; a memberType  *)
(* carrying a string attributeName is not rejected for it.                 *)
(***************************************************************************)
C8_ListIff ==
    (Validated /\ isBaseType(arg) /\ TypeName(arg) \in {"List", "Map"})
        => /\ result = "true" <=> Accepted(Get(arg, "memberType"))
           /\ Get(arg, "memberType") = Undefined => result = "false"

C8_Witness ==
    /\ Validated /\ isBaseType(arg) /\ TypeName(arg) = "Map"
    /\ Get(Get(arg, "memberType"), "attributeName") = Str("attr")
    /\ result = "true"

(***************************************************************************)
(* Vocabulary of the walk's properties                                     *)
(***************************************************************************)
\* The cells held by cell i; with `descended`, only if cell i passes the base
\* check, without which the validator does not look at what it holds
Edges(i, descended) ==
    IF descended /\ ~isBaseType(heap[i]) THEN {}
    ELSE {c \in DOMAIN heap :
             \E m \in DOMAIN Children(heap[i]) : Children(heap[i])[m] = Ref(c)}

RECURSIVE ReachFrom(_, _)
\* S and every cell reachable from S along the edges
ReachFrom(S, descended) ==
    LET T == S \cup UNION {Edges(i, descended) : i \in S}
    IN  IF T = S THEN S ELSE ReachFrom(T, descended)

\* The input holds a schema node that is reachable from itself
CyclicInput ==
    \E c \in ReachFrom({root.id}, TRUE) : c \in ReachFrom(Edges(c, TRUE), TRUE)

\* No cell holds itself, however indirectly, and no cell is held twice
TreeShaped ==
    /\ \A c \in DOMAIN heap : c \notin ReachFrom(Edges(c, FALSE), FALSE)
    /\ \A c \in DOMAIN heap :
          Cardinality(UNION {{<<i, m>> : m \in {n \in DOMAIN Children(heap[i]) :
                                                    Children(heap[i])[n] = Ref(c)}} :
                             i \in DOMAIN heap}) <= 1

\* isSchemaType has been called on a cell whose validation is in progress
Reentered ==
    \E i, j \in DOMAIN stack :
        i < j /\ stack[i].v.k = "ref" /\ stack[i].v = stack[j].v

\* Every node of the input passes the checks made on the node itself
LocallyAccepted(a) ==
    /\ LocalOutcome(a) \in {"true", "loop"}
    /\ TypeName(a) = "Document"
          => TypeOf(Get(a, "valueConstructor")) \in {"function", "undefined"}
    /\ \A m \in DOMAIN Children(a) :
          Children(a)[m].k # "ref" => LocalOutcome(Children(a)[m]) = "true"

AllLocallyAccepted ==
    \A c \in ReachFrom({root.id}, TRUE) : LocallyAccepted(heap[c])

RECURSIVE Inline(_)
\* The value a tree-shaped heap spells out
Inline(v) ==
    CASE v.k = "ref"    -> Inline(heap[v.id])
      [] v.k = "array"  -> Arr([i \in DOMAIN v.elems |-> Inline(v.elems[i])])
      [] v.k = "object" ->
            Obj([i \in DOMAIN v.entries |->
                    <<v.entries[i][1], Inline(v.entries[i][2])>>])
      [] OTHER          -> v

\* On a tree the walk returns what the function isSchemaType computes
WalkAgreesWithFunction ==
    (Done /\ TreeShaped) => ret = isSchemaType(Inline(root))

(***************************************************************************)
(* C9: whenever the input holds a node reachable from itself through       *)
(* Document members, List/Map memberType or Tuple members, the validation  *)
(* never returns true or false.                                            *)
(***************************************************************************)
C9_CycleNeverReturns == (Done /\ CyclicInput) => ret \notin {"true", "false"}

\* C9 as amended: a cyclic input is never reported valid; the recursion is
\* unbounded when the walk reaches the cycle: once isSchemaType is called on
\* a node whose validation is in progress no such call ever returns, and this
\* is what happens whenever every node passes the checks made on itself.
C9_CycleReachedNeverReturns ==
    /\ []((Done /\ CyclicInput) => ret # "true")
    /\ [](Done => ~(CyclicInput /\ AllLocallyAccepted))
    /\ [][Reentered => Reentered']_vars

C9_Witness ==
    /\ Reentered /\ ret = "none"
    /\ \E c \in DOMAIN heap : visits[c] >= 3
    /\ CyclicInput

(***************************************************************************)
(* C10: on a tree-shaped input the walk ends with a boolean result and     *)
(* validates no node more than once.                                       *)
(***************************************************************************)
C10_TreeEndsWithBoolean ==
    TreeShaped
        => /\ Done \/ ENABLED WalkNext
           /\ Done => ret \in {"true", "false"}
           /\ \A c \in DOMAIN heap : visits[c] <= 1

\* What holds of C10 on the code: the walk ends, with true, false or the
\* exception a key configuration raised, and validates no node twice
C10_TreeEnds ==
    TreeShaped
        => /\ Done \/ ENABLED WalkNext
           /\ \A c \in DOMAIN heap : visits[c] <= 1

====
